---- MODULE Spec2Model ----
(***************************************************************************)
(* Model of proc-macro-tools (src/src/lib.rs): the declaration pattern     *)
(* FN_PATTERN, FunctionDecl::from_string and the reassembly methods        *)
(* func_prelude, func_end and into_func_body.                              *)
(*                                                                         *)
(* A string is a sequence of one-character strings.  The pattern is        *)
(* matched the way the regex crate matches it: anchored at the start, and  *)
(* among all ways to match, the one a backtracking matcher finds first     *)
(* (a lazy repetition takes the shortest run that lets the rest match, a   *)
(* greedy one the longest, an optional group is taken when it can be).     *)
(***************************************************************************)
EXTENDS Integers, Sequences, FiniteSets, TLC

\* ------------------------------------------------------------------ text

Min(S) == CHOOSE x \in S : \A y \in S : x <= y
Max(S) == CHOOSE x \in S : \A y \in S : y <= x

\* The character at position i of s, or "" beyond its ends.
At(s, i) == IF i \in 1..Len(s) THEN s[i] ELSE ""

\* s[from .. to-1]
Slice(s, from, to) == SubSeq(s, from, to - 1)

\* The literal w stands at position i of s.
Lit(s, i, w) == \A k \in 1..Len(w) : At(s, i + k - 1) = w[k]

\* The length of the longest run of characters of C starting at position i.
RECURSIVE Run(_, _, _)
Run(s, i, C) == IF At(s, i) \in C THEN 1 + Run(s, i + 1, C) ELSE 0

RECURSIVE Concat(_)
Concat(ss) == IF ss = <<>> THEN <<>> ELSE Head(ss) \o Concat(Tail(ss))

\* White space, as str::trim sees it, among the characters the model uses.
WhiteSpace == {" ", "\n", "\t"}

TrimOf(s, C) ==
    LET keep == {i \in 1..Len(s) : s[i] \notin C}
    IN  IF keep = {} THEN <<>> ELSE SubSeq(s, Min(keep), Max(keep))

\* str::trim
Trim(s) == TrimOf(s, WhiteSpace)

\* str::trim_matches(' ')
TrimMatchesSpace(s) == TrimOf(s, {" "})

\* --------------------------------------------------------------- pattern
\* ^([\w\W]*?) *(pub +)?(async +)?fn +([\w\W]*?)(\([\w\W]*?) +?(->[\w\W]*?)?[ \n]*\{([\S\s]*)\}
\* Each P_x(s, i) matches the rest of the pattern from its part x on, at
\* position i, and gives the captures of that rest or NoMatch.  A capture is
\* <<from, to>>, the text s[from .. to-1]; NoGroup is a group that took no part.

NoMatch == [matched |-> FALSE]
NoGroup == <<0, 0>>

\* The one element of a set of one element.
The(S) == CHOOSE y \in S : TRUE

\* R holds, for each length k a repetition may take, <<k, what the rest of
\* the pattern gives after it>>.  Matches(R) are the lengths that let the
\* rest match; a lazy repetition settles on the shortest of them, a greedy
\* one on the longest.
Matches(R)  == {x \in R : x[2].matched}
Shortest(R) == CHOOSE x \in Matches(R) : \A y \in Matches(R) : x[1] <= y[1]
Longest(R)  == CHOOSE x \in Matches(R) : \A y \in Matches(R) : y[1] <= x[1]

\* ([\S\s]*)\}$  the closing brace must end the text.
P_Body_anchored(s, i) ==
    IF i <= Len(s) /\ At(s, Len(s)) = "}"
    THEN [matched |-> TRUE, c7 |-> <<i, Len(s)>>, mend |-> Len(s) + 1]
    ELSE NoMatch

\* ([\S\s]*)\}  greedy: up to the last closing brace.
P_Body(s, i) ==
    The({IF Matches(R) = {} THEN NoMatch ELSE Longest(R)[2] :
         R \in {{<<k, IF At(s, i + k) = "}"
                      THEN [matched |-> TRUE, c7 |-> <<i, i + k>>, mend |-> i + k + 1]
                      ELSE NoMatch>> : k \in 0..(Len(s) + 1 - i)}}})

\* [ \n]*\{  greedy.
P_Brace(s, i) ==
    The({IF Matches(R) = {} THEN NoMatch ELSE Longest(R)[2] :
         R \in {{<<k, IF At(s, i + k) = "{" THEN P_Body(s, i + k + 1) ELSE NoMatch>> :
                    k \in 0..Run(s, i, {" ", "\n"})}}})

\* (->[\w\W]*?)?  the group is tried first, its run lazy (R); failing that,
\* the pattern goes on without the group (o).
P_Ret(s, i) ==
    The({IF Matches(R) # {}
             THEN [c6 |-> <<i, i + 2 + Shortest(R)[1]>>] @@ Shortest(R)[2]
         ELSE IF o.matched THEN [c6 |-> NoGroup] @@ o
         ELSE NoMatch :
         R \in {{<<k, P_Brace(s, i + 2 + k)>> :
                    k \in IF Lit(s, i, <<"-", ">">>) THEN 0..(Len(s) - 1 - i) ELSE {}}},
         o \in {P_Brace(s, i)}})

\* ' +?'  lazy, at least one space.
P_Gap(s, i) ==
    The({IF Matches(R) = {} THEN NoMatch ELSE Shortest(R)[2] :
         R \in {{<<k, P_Ret(s, i + k)>> : k \in 1..Run(s, i, {" "})}}})

\* (\([\w\W]*?)  lazy.
P_Decl(s, i) ==
    The({IF Matches(R) = {} THEN NoMatch
         ELSE [c5 |-> <<i, i + 1 + Shortest(R)[1]>>] @@ Shortest(R)[2] :
         R \in {{<<k, P_Gap(s, i + 1 + k)>> :
                    k \in IF At(s, i) = "(" THEN 0..(Len(s) - i) ELSE {}}}})

\* ([\w\W]*?)  lazy.
P_Name(s, i) ==
    The({IF Matches(R) = {} THEN NoMatch
         ELSE [c4 |-> <<i, i + Shortest(R)[1]>>] @@ Shortest(R)[2] :
         R \in {{<<k, P_Decl(s, i + k)>> : k \in 0..(Len(s) + 1 - i)}}})

\* 'fn +'  greedy, at least one space.
P_Fn(s, i) ==
    The({IF Matches(R) = {} THEN NoMatch ELSE Longest(R)[2] :
         R \in {{<<k, P_Name(s, i + 2 + k)>> :
                    k \in IF Lit(s, i, <<"f", "n">>) THEN 1..Run(s, i + 2, {" "}) ELSE {}}}})

\* (async +)?  the group is tried first, its spaces greedy (R); failing that,
\* the pattern goes on without the group (o).
P_Async(s, i) ==
    The({IF Matches(R) # {}
             THEN [c3 |-> <<i, i + 5 + Longest(R)[1]>>] @@ Longest(R)[2]
         ELSE IF o.matched THEN [c3 |-> NoGroup] @@ o
         ELSE NoMatch :
         R \in {{<<k, P_Fn(s, i + 5 + k)>> :
                    k \in IF Lit(s, i, <<"a", "s", "y", "n", "c">>)
                          THEN 1..Run(s, i + 5, {" "}) ELSE {}}},
         o \in {P_Fn(s, i)}})

\* (pub +)?  the group is tried first, its spaces greedy (R); failing that,
\* the pattern goes on without the group (o).
P_Pub(s, i) ==
    The({IF Matches(R) # {}
             THEN [c2 |-> <<i, i + 3 + Longest(R)[1]>>] @@ Longest(R)[2]
         ELSE IF o.matched THEN [c2 |-> NoGroup] @@ o
         ELSE NoMatch :
         R \in {{<<k, P_Async(s, i + 3 + k)>> :
                    k \in IF Lit(s, i, <<"p", "u", "b">>)
                          THEN 1..Run(s, i + 3, {" "}) ELSE {}}},
         o \in {P_Async(s, i)}})

\* ' *'  greedy.
P_Lead(s, i) ==
    The({IF Matches(R) = {} THEN NoMatch ELSE Longest(R)[2] :
         R \in {{<<k, P_Pub(s, i + k)>> : k \in 0..Run(s, i, {" "})}}})

\* Regex::captures: ^([\w\W]*?) lazy from the start of the text, then the
\* rest: the first match in the matcher's order of preference.
FN_PATTERN(s) ==
    The({IF Matches(R) = {} THEN NoMatch
         ELSE [c1 |-> <<1, 1 + Shortest(R)[1]>>] @@ Shortest(R)[2] :
         R \in {{<<k, P_Lead(s, 1 + k)>> : k \in 0..Len(s)}}})

\* Captures::len: the pattern's groups, the whole match included.
CapsLen == 8

\* caps[n] / caps.get(n).as_str()
Cap(s, c) == Slice(s, c[1], c[2])

\* ---------------------------------------------------------- FunctionDecl

\* FunctionDecl::from_string.  A panic is a result with ok = FALSE: no
\* instance is returned.
Panic(msg) == [ok |-> FALSE, msg |-> msg]

\* The closure of `ret_decl`: the capture without its first two characters,
\* trimmed.  char_indices().nth(2) is None for a capture of two characters,
\* and the unwrap panics.
RetDecl(g6) ==
    IF Len(g6) < 3 THEN Panic("called Option::unwrap() on a None value")
    ELSE [ok |-> TRUE, val |-> Trim(SubSeq(g6, 3, Len(g6)))]

OptCap(s, c) == IF c = NoGroup THEN <<>> ELSE Cap(s, c)

\* The body of from_string, given what FN_PATTERN.captures returned.
Decompose(in_str, caps) ==
    IF ~caps.matched THEN Panic("Can only use on a function declaration")
    ELSE IF CapsLen # 8 THEN Panic("Must be a proper fn declaration")
    ELSE IF caps.c6 # NoGroup /\ ~RetDecl(Cap(in_str, caps.c6)).ok
         THEN RetDecl(Cap(in_str, caps.c6))
    ELSE [ok |-> TRUE,
          decl |-> [func_prologue |-> TrimMatchesSpace(Cap(in_str, caps.c1)),
                    pub_str       |-> Trim(OptCap(in_str, caps.c2)),
                    async_str     |-> Trim(OptCap(in_str, caps.c3)),
                    fn_name       |-> Trim(Cap(in_str, caps.c4)),
                    fn_decl       |-> Trim(Cap(in_str, caps.c5)),
                    ret_decl      |-> IF caps.c6 = NoGroup THEN <<>>
                                      ELSE RetDecl(Cap(in_str, caps.c6)).val,
                    fn_body       |-> Trim(Cap(in_str, caps.c7))]]

from_string(in_str) == Decompose(in_str, FN_PATTERN(in_str))

\* add_space_or_empty without its test for the empty string.
add_space_or_empty_always(input) == input \o <<" ">>

add_space_or_empty(input) == IF input # <<>> THEN input \o <<" ">> ELSE <<>>

\* func_prelude with the opening brace put right after the signature.
func_prelude_no_space(d) ==
    d.func_prologue
        \o add_space_or_empty(d.pub_str)
        \o add_space_or_empty(d.async_str)
        \o <<"f", "n", " ">> \o d.fn_name \o d.fn_decl
        \o (IF d.ret_decl # <<>> THEN <<" ", "-", ">", " ">> \o d.ret_decl ELSE <<>>)
        \o <<"{">>

\* func_prelude with the arrow put right after the parameter list.
func_prelude_tight_arrow(d) ==
    d.func_prologue
        \o add_space_or_empty(d.pub_str)
        \o add_space_or_empty(d.async_str)
        \o <<"f", "n", " ">> \o d.fn_name \o d.fn_decl
        \o (IF d.ret_decl # <<>> THEN <<"-", ">", " ">> \o d.ret_decl ELSE <<>>)
        \o <<" ", "{">>

func_prelude(d) ==
    d.func_prologue
        \o add_space_or_empty(d.pub_str)
        \o add_space_or_empty(d.async_str)
        \o <<"f", "n", " ">> \o d.fn_name \o d.fn_decl
        \o (IF d.ret_decl # <<>> THEN <<" ", "-", ">", " ">> \o d.ret_decl ELSE <<>>)
        \o <<" ", "{">>

func_end == <<"}">>

\* into_func_body trimming the body it is given.
into_func_body_trimmed(d, body_add) ==
    func_prelude(d) \o <<"\n">> \o Trim(body_add) \o <<"\n">> \o func_end

into_func_body(d, body_add) ==
    func_prelude(d) \o <<"\n">> \o body_add \o <<"\n">> \o func_end

\* ---------------------------------------------------------------- inputs
\* The texts handed to from_string.  A text is put together from the parts of
\* a declaration: a line before it (line), its indentation, the qualifiers,
\* the keyword, the name, the parameter list, the arrow clause, the body in
\* its braces, and text after the closing brace (tail).  The parts are
\* separated by single spaces, except at one place (slot) where the run of
\* spaces and line breaks is `run`.

\* The longest separating run put between two parts.
MaxRun == 2

RECURSIVE RunsOf(_)
RunsOf(n) ==
    IF n = 0 THEN {<<>>}
    ELSE RunsOf(n - 1)
         \cup {<<c>> \o r : c \in {" ", "\n"}, r \in {x \in RunsOf(n - 1) : Len(x) = n - 1}}

Runs == RunsOf(MaxRun)

Lines  == {<<>>, <<"#", "\n">>, <<"#", " ", "f", "n", " ", "x", "\n">>}
Names  == {<<"f">>, <<>>}
Rets   == {<<>>, <<"R">>}
Bodies == {<<>>, <<"\n", "b", "\n">>, <<" ", "{", "}", " ">>}
Tails  == {<<>>, <<"x">>}
Slots  == {"indent", "pub", "async", "fn", "params", "arrow", "ret"}

\* The bodies handed to into_func_body.
NewBodies == {<<>>, <<" ", "b", "\n">>, <<"}", " ", "{">>}

Srcs ==
    {x \in [line : Lines, pub : BOOLEAN, asy : BOOLEAN, name : Names,
            arrow : BOOLEAN, ret : Rets, body : Bodies, tail : Tails,
            slot : Slots, run : Runs] :
        /\ (x.slot = "pub") => x.pub
        /\ (x.slot = "async") => x.asy
        /\ (x.slot \in {"arrow", "ret"}) => x.arrow
        /\ (~x.arrow) => x.ret = <<>>}

\* The run at a place: `run` at the slot, and elsewhere no indentation and
\* one space between parts.
Sep(x, place) ==
    IF x.slot = place THEN x.run
    ELSE IF place = "indent" THEN <<>>
    ELSE <<" ">>

Assemble(x) ==
    Concat(<<x.line, Sep(x, "indent"),
             IF x.pub THEN <<"p", "u", "b">> \o Sep(x, "pub") ELSE <<>>,
             IF x.asy THEN <<"a", "s", "y", "n", "c">> \o Sep(x, "async") ELSE <<>>,
             <<"f", "n">>, Sep(x, "fn"), x.name, <<"(", ")">>, Sep(x, "params"),
             IF x.arrow
                 THEN Concat(<<<<"-", ">">>, Sep(x, "arrow"), x.ret,
                               IF x.ret = <<>> THEN <<>> ELSE Sep(x, "ret")>>)
                 ELSE <<>>,
             <<"{">>, x.body, <<"}">>, x.tail>>)

\* ----------------------------------------------------------------- state

VARIABLES
    pc,        \* where the caller stands
    src,       \* the parts the first text was put together from
    in_str,    \* the text handed to from_string
    caps,      \* what FN_PATTERN.captures returned in the last from_string call
    decl,      \* the FunctionDecl from_string returned
    via,       \* what the text of the second from_string call was built by
    body_add,  \* the body handed to into_func_body
    out,       \* the text a reassembly method returned
    again,     \* the result of from_string on that text
    out2       \* the text into_func_body returned on the second FunctionDecl

vars == <<pc, src, in_str, caps, decl, via, body_add, out, again, out2>>

NoSrc  == [slot |-> "none"]
NoDecl == [ok |-> FALSE, msg |-> "none"]

Init ==
    /\ pc = "start"
    /\ src \in Srcs
    /\ in_str = Assemble(src)
    /\ caps = NoMatch
    /\ decl = NoDecl
    /\ via = "none"
    /\ body_add = <<>>
    /\ out = <<>>
    /\ again = NoDecl
    /\ out2 = <<>>

\* FunctionDecl::from_string(in_str): a FunctionDecl, or a panic.
FromString ==
    /\ pc = "start"
    /\ caps' = FN_PATTERN(in_str)
    /\ decl' = Decompose(in_str, caps')
    /\ pc' = IF decl'.ok THEN "parsed" ELSE "panicked"
    /\ UNCHANGED <<src, in_str, via, body_add, out, again, out2>>

\* d.func_prelude().  from_string took the text by value and its captures
\* borrow from it: from here on the caller holds the FunctionDecl alone.
FuncPrelude ==
    /\ pc = "parsed"
    /\ out' = func_prelude(decl.decl)
    /\ pc' = "prelude"
    /\ src' = NoSrc
    /\ in_str' = <<>>
    /\ caps' = NoMatch
    /\ UNCHANGED <<decl, via, body_add, again, out2>>

\* d.func_end(), put after the text of func_prelude.
FuncEnd ==
    /\ pc = "prelude"
    /\ out' = out \o func_end
    /\ pc' = "closed"
    /\ UNCHANGED <<src, in_str, caps, decl, via, body_add, again, out2>>

\* d.into_func_body(b)
IntoFuncBody ==
    /\ pc = "parsed"
    /\ \E b \in NewBodies :
        /\ body_add' = b
        /\ out' = into_func_body(decl.decl, b)
    /\ pc' = "rebuilt"
    /\ src' = NoSrc
    /\ in_str' = <<>>
    /\ caps' = NoMatch
    /\ UNCHANGED <<decl, via, again, out2>>

\* FunctionDecl::from_string on the text a reassembly method returned.
FromStringAgain ==
    /\ pc \in {"prelude", "closed", "rebuilt"}
    /\ in_str' = out
    /\ caps' = FN_PATTERN(out)
    /\ again' = Decompose(out, caps')
    /\ via' = pc
    /\ pc' = "reparsed"
    /\ UNCHANGED <<src, decl, body_add, out, out2>>

\* into_func_body on the second FunctionDecl, with the same body.
IntoFuncBodyAgain ==
    /\ pc = "reparsed"
    /\ via = "rebuilt"
    /\ again.ok
    /\ out2' = into_func_body(again.decl, body_add)
    /\ pc' = "rebuilt2"
    /\ UNCHANGED <<src, in_str, caps, decl, via, body_add, out, again>>

Next ==
    \/ FromString
    \/ FuncPrelude
    \/ FuncEnd
    \/ IntoFuncBody
    \/ FromStringAgain
    \/ IntoFuncBodyAgain

Spec == Init /\ [][Next]_vars

\* ---------------------------------------------------------------- claims

\* The six fields of the signature.
Sig(d) == <<d.func_prologue, d.pub_str, d.async_str, d.fn_name, d.fn_decl, d.ret_decl>>

Parsed == pc \in {"parsed", "panicked"}

\* A declaration with a name and, if it has an arrow, a return type, alone in
\* its text.
Proper(x) ==
    /\ x.name # <<>>
    /\ x.arrow => x.ret # <<>>
    /\ x.tail = <<>>

\* The same parts with one space between them and no indentation.
SingleSpaced(x) == [x EXCEPT !.slot = "indent", !.run = <<>>]

\* C1: into_func_body(b) is func_prelude(), a line break, b as given (not
\* trimmed), a line break, and the one character "}" of func_end().
C1_IntoFuncBody ==
    /\ func_end = <<"}">>
    /\ pc = "rebuilt" =>
          out = Concat(<<func_prelude(decl.decl), <<"\n">>, body_add, <<"\n">>, <<"}">>>>)

C1_Witness ==
    /\ pc = "rebuilt"
    /\ body_add = <<" ", "b", "\n">>
    /\ decl.decl.ret_decl # <<>>

\* C2: func_prelude() is func_prologue, pub_str and a space if pub_str is not
\* empty, async_str and a space if async_str is not empty, "fn ", fn_name,
\* fn_decl, " -> " and ret_decl if ret_decl is not empty, and " {".
C2_FuncPrelude ==
    pc = "prelude" =>
        out = Concat(<<decl.decl.func_prologue,
                       IF decl.decl.pub_str = <<>> THEN <<>>
                           ELSE decl.decl.pub_str \o <<" ">>,
                       IF decl.decl.async_str = <<>> THEN <<>>
                           ELSE decl.decl.async_str \o <<" ">>,
                       <<"f", "n", " ">>, decl.decl.fn_name, decl.decl.fn_decl,
                       IF decl.decl.ret_decl = <<>> THEN <<>>
                           ELSE <<" ", "-", ">", " ">> \o decl.decl.ret_decl,
                       <<" ", "{">>>>)

C2_Witness ==
    /\ pc = "prelude"
    /\ decl.decl.pub_str = <<>>
    /\ decl.decl.async_str # <<>>
    /\ decl.decl.ret_decl = <<>>

\* C3, as claimed: the text of func_prelude(), for a declaration with a name,
\* can be handed to from_string, which succeeds and returns the same six
\* signature fields.
C3_PreludeReparses ==
    (pc = "reparsed" /\ via = "prelude" /\ decl.decl.fn_name # <<>>) =>
        (again.ok /\ Sig(again.decl) = Sig(decl.decl))

\* C3, amended: the text of func_prelude() followed by func_end() can be
\* handed to from_string, which succeeds and returns the same six signature
\* fields, with an empty body.
C3_ClosedPreludeReparses ==
    (pc = "reparsed" /\ via = "closed") =>
        /\ again.ok
        /\ Sig(again.decl) = Sig(decl.decl)
        /\ again.decl.fn_body = <<>>

C3_Witness ==
    /\ pc = "reparsed"
    /\ via = "closed"
    /\ again.ok
    /\ decl.decl.func_prologue # <<>>
    /\ decl.decl.pub_str # <<>>
    /\ decl.decl.ret_decl # <<>>

\* C4: a text whose parts are separated by some run of spaces and line breaks
\* (a run of line breaks alone included) is decomposed, and into the same
\* seven fields as the text of the same parts separated by single spaces.
C4_ElasticWhitespace ==
    (/\ Parsed
     /\ Proper(src)
     /\ src.line = <<>>
     /\ src.slot \in {"pub", "async", "fn", "params", "arrow", "ret"}
     /\ src.run # <<>>) =>
        (decl.ok /\ decl = from_string(Assemble(SingleSpaced(src))))

\* C5, as claimed: from_string returns a FunctionDecl (here for a declaration
\* with a name) only when the match covers the whole text.
C5_MatchCoversInput ==
    (pc = "parsed" /\ src.name # <<>>) => caps.mend = Len(in_str) + 1

\* C5, amended: the match ends at the last closing brace of the text; text
\* after that brace is not covered by the match and does not make from_string
\* fail: the result is the one for the text without it.
C5_TrailingTextIgnored ==
    /\ pc = "parsed" =>
          caps.mend = 1 + Max({j \in 1..Len(in_str) : in_str[j] = "}"})
    /\ (Parsed /\ src.tail # <<>>) =>
          decl = from_string(Assemble([src EXCEPT !.tail = <<>>]))

C5_Witness ==
    /\ pc = "parsed"
    /\ src.tail # <<>>
    /\ caps.mend <= Len(in_str)

\* C6: a FunctionDecl that from_string returns has a fn_name and a fn_decl
\* that are not empty.
C6_NameAndDeclNotEmpty ==
    pc = "parsed" => (decl.decl.fn_name # <<>> /\ decl.decl.fn_decl # <<>>)

\* C7: for a text the pattern matches (here of a declaration with a name,
\* alone in its text), from_string returns a FunctionDecl
\* whose pub_str is "pub" if the pub group took part and "" if not, whose
\* async_str is "async" if the async group took part and "" if not, and whose
\* ret_decl is the arrow capture without its two first characters, trimmed,
\* if the arrow group took part (nothing but white space after the arrow
\* included) and "" if not.
C7_OptionalFields ==
    (Parsed /\ caps.matched /\ src.name # <<>> /\ src.tail = <<>>) =>
        /\ decl.ok
        /\ decl.decl.pub_str =
              (IF caps.c2 = NoGroup THEN <<>> ELSE <<"p", "u", "b">>)
        /\ decl.decl.async_str =
              (IF caps.c3 = NoGroup THEN <<>> ELSE <<"a", "s", "y", "n", "c">>)
        /\ decl.decl.ret_decl =
              (IF caps.c6 = NoGroup THEN <<>>
               ELSE Trim(Tail(Tail(Cap(in_str, caps.c6)))))

\* C8: fn_body is the text between the first opening brace and the last
\* closing brace of the text, trimmed (here for a declaration with a name,
\* alone in its text, under no line of its own).
C8_BodyBetweenBraces ==
    (pc = "parsed" /\ src.name # <<>> /\ src.tail = <<>> /\ src.line = <<>>) =>
        decl.decl.fn_body =
            Trim(Slice(in_str,
                       1 + Min({j \in 1..Len(in_str) : in_str[j] = "{"}),
                       Max({j \in 1..Len(in_str) : in_str[j] = "}"})))

\* C9: when the text is a line ending in a line break, then spaces, then a
\* declaration, func_prologue is that line, line break included, whatever is
\* on the line, and func_prelude() begins with func_prologue.
C9_PrologueLine ==
    /\ (/\ Parsed
        /\ Proper(src)
        /\ src.line # <<>>
        /\ src.slot = "indent"
        /\ \A k \in 1..Len(src.run) : src.run[k] = " ") =>
           (decl.ok /\ decl.decl.func_prologue = src.line)
    /\ pc = "prelude" =>
           SubSeq(out, 1, Len(decl.decl.func_prologue)) = decl.decl.func_prologue

\* C10: from_string on the text of into_func_body(b) succeeds and returns the
\* six signature fields of the first FunctionDecl, with fn_body equal to b
\* trimmed; into_func_body(b) on that result returns the same text again.
C10_RebuildFixedPoint ==
    /\ (pc \in {"reparsed", "rebuilt2"} /\ via = "rebuilt") =>
          /\ again.ok
          /\ Sig(again.decl) = Sig(decl.decl)
          /\ again.decl.fn_body = Trim(body_add)
    /\ pc = "rebuilt2" => out2 = out

C10_Witness ==
    /\ pc = "rebuilt2"
    /\ body_add = <<"}", " ", "{">>
    /\ decl.decl.func_prologue # <<>>
    /\ decl.decl.async_str # <<>>
    /\ decl.decl.ret_decl # <<>>

====
